---- MODULE Spec2Model ----
(***************************************************************************)
(* One run of the PromptPlace "issue to commit" pipeline, in its two       *)
(* variants: src/llm_editor.py (Gemini chat session) and                   *)
(* src/llm_editor_openai.py (OpenAI completion endpoint).                   *)
(*                                                                         *)
(* Text (the artifact, the model output, the issue body, the prompt) is a  *)
(* sequence of tokens: "H" is an opening <html> tag, "h" the closing       *)
(* </html> tag, "x" a run of non-blank text, "n" a run of white space.     *)
(* The "P.." tokens are the fixed framing text of the prompt.              *)
(***************************************************************************)
EXTENDS Integers, Sequences, FiniteSets, TLC

\* Longest text inside the <html> element of an input document, in tokens.
MaxText == 2

\* JSON null / Python None / a key that is not there, for a label name.
Null == "null"
\* The exit code of a process that has not exited yet.
Running == 0 - 1

Variants == {"gemini", "openai"}

(***************************************************************************)
(* Text                                                                    *)
(***************************************************************************)
\* All token sequences over S of length at most k.
RECURSIVE SeqsUpTo(_, _)
SeqsUpTo(S, k) ==
    IF k = 0 THEN {<<>>}
    ELSE LET shorter == SeqsUpTo(S, k - 1)
         IN  shorter \cup {Append(s, t) : s \in {u \in shorter : Len(u) = k - 1}, t \in S}

\* Text inside the element: non-blank text and white space.
Texts == SeqsUpTo({"x", "n"}, MaxText)

\* The <html> elements of the input documents, and <<>> for "no element".
Elems == {<<>>} \cup {<<"H">> \o b \o <<"h">> : b \in Texts}

\* Documents: optional text before the element, the element, optional
\* white space after it.
Docs == {pre \o el \o post : pre \in {<<>>, <<"x">>}, el \in Elems, post \in {<<>>, <<"n">>}}

IndexOf(s, t) ==
    IF \E i \in 1..Len(s) : s[i] = t
    THEN CHOOSE i \in 1..Len(s) : s[i] = t /\ \A j \in 1..(i - 1) : s[j] # t
    ELSE 0

IsBlank(s) == \A i \in 1..Len(s) : s[i] = "n"

\* str.strip(): leading and trailing white space removed.
Strip(s) ==
    IF IsBlank(s) THEN <<>>
    ELSE LET first == CHOOSE i \in 1..Len(s) : s[i] # "n" /\ \A j \in 1..(i - 1) : s[j] = "n"
             last  == CHOOSE i \in 1..Len(s) : s[i] # "n" /\ \A j \in (i + 1)..Len(s) : s[j] = "n"
         IN  SubSeq(s, first, last)

\* s is a contiguous part of t.
IsSubstring(s, t) ==
    \E i \in 0..(Len(t) - Len(s)) : SubSeq(t, i + 1, i + Len(s)) = s

\* s is the beginning of t.
IsPrefix(s, t) == Len(s) <= Len(t) /\ SubSeq(t, 1, Len(s)) = s

(***************************************************************************)
(* BeautifulSoup(text, "html.parser"): the text before the first <html>    *)
(* tag, the content of the element (to its closing tag, or to the end of   *)
(* the text when it is never closed), and the text after it.               *)
(***************************************************************************)
Soup(text) ==
    LET open == IndexOf(text, "H")
    IN  IF open = 0
        THEN [found |-> FALSE, pre |-> text, body |-> <<>>, post |-> <<>>]
        ELSE LET rest  == SubSeq(text, open + 1, Len(text))
                 close == IndexOf(rest, "h")
             IN  [found |-> TRUE,
                  pre   |-> SubSeq(text, 1, open - 1),
                  body  |-> IF close = 0 THEN rest ELSE SubSeq(rest, 1, close - 1),
                  post  |-> IF close = 0 THEN <<>> ELSE SubSeq(rest, close + 1, Len(rest))]

\* One text node, pretty-printed: stripped, on a line of its own; a node of
\* white space alone prints nothing.
TextLine(s) == IF IsBlank(s) THEN <<>> ELSE Strip(s) \o <<"n">>

\* Tag.prettify() of the <html> element: the tags and the text each on a
\* line of their own.
PrettifyTag(body) == <<"H", "n">> \o TextLine(body) \o <<"h", "n">>

\* BeautifulSoup.prettify() of the whole parsed text.
PrettifySoup(soup) ==
    TextLine(soup.pre)
        \o (IF soup.found THEN PrettifyTag(soup.body) ELSE <<>>)
        \o TextLine(soup.post)

(***************************************************************************)
(* The inputs of a run                                                     *)
(***************************************************************************)
\* issue.number: 0 stands for every falsy value (0, null, no such key).
Numbers == {0, 7}
\* issue.body: <<>> stands for every falsy value ("", null, no such key).
Bodies == {<<>>, <<"n">>, <<"x">>}

NoIssue == [kind |-> "none", number |-> 0, body |-> <<>>]
\* event["issue"]: falsy (null, {}, no such key), a truthy value that is no
\* object, or an object.
Issues ==
    {NoIssue, [kind |-> "scalar", number |-> 0, body |-> <<>>]}
        \cup [kind : {"object"}, number : Numbers, body : Bodies]

NoLabel == [kind |-> "missing", name |-> Null]
\* event["label"]: no such key, null, or an object with a name (or none).
Labels ==
    {NoLabel, [kind |-> "null", name |-> Null]}
        \cup [kind : {"object"}, name : {Null, "bug", "prompt"}]

\* The file GITHUB_EVENT_PATH names: unreadable or no JSON, JSON that is no
\* object, or an object.
Events ==
    [kind : {"unreadable", "notobject"}, issue : {NoIssue}, label : {NoLabel}]
        \cup [kind : {"object"}, issue : Issues, label : Labels]

\* The environment: GITHUB_EVENT_PATH set, the model provider's API key set,
\* index.html present in the working copy.
Envs == [eventPath : BOOLEAN, apiKey : BOOLEAN, artifact : BOOLEAN]

\* How the issue-comment request ends: GITHUB_TOKEN or GITHUB_REPOSITORY not
\* set (no request is sent), a 200/201 answer, another status, an exception
\* raised by requests.post.
CommentOutcomes == {"noconfig", "ok", "badstatus", "exception"}

NoCall == [site |-> "none", number |-> 0, body |-> <<>>]

VARIABLES
    variant,        \* which of the two scripts runs
    env,            \* the environment variables and the working copy
    event,          \* the event payload
    file,           \* content of index.html in the working copy
    index,          \* content of index.html staged in the git index
    head,           \* content of index.html in the HEAD commit
    headId,         \* identifier of the local HEAD commit
    remoteId,       \* identifier of the head of origin/main
    pc,             \* the statement main() is at
    exitCode,       \* the process exit code, Running before it exits
    issueBound,     \* whether the local variable issue is assigned
    issue_number, issue_body, current_html, prompt, llm_output, new_html,
    commit_hash,    \* locals of main()
    commit_message, \* the local commit_message, line 108 / 133
    exc,            \* the exception being handled at line 136
    call,           \* the pending call of post_issue_comment
    comments,       \* the calls of post_issue_comment made, with their outcome
    trace,          \* the external operations attempted, in order
    run,            \* "first", or "second" for a run in the working copy of another
    start           \* the working copy and the repository when the run started

repo == <<file, index, head, headId, remoteId>>
inputs == <<variant, env, event>>
locals == <<issueBound, issue_number, issue_body, current_html, prompt,
            llm_output, new_html, commit_hash>>
ghost == <<run, start>>
vars == <<inputs, repo, pc, exitCode, locals, commit_message, exc, call, comments,
          trace, ghost>>

Init ==
    /\ variant \in Variants
    /\ env \in Envs
    /\ event \in Events
    /\ file \in (IF env.artifact THEN Docs ELSE {<<>>})
    \* a freshly checked-out working copy: nothing modified, nothing staged,
    \* nothing unpushed
    /\ index = file
    /\ head = file
    /\ headId = "c0"
    /\ remoteId = "c0"
    /\ pc = "start"
    /\ exitCode = Running
    /\ issueBound = FALSE
    /\ issue_number = 0
    /\ issue_body = <<>>
    /\ current_html = <<>>
    /\ prompt = <<>>
    /\ llm_output = <<>>
    /\ new_html = <<>>
    /\ commit_hash = ""
    /\ exc = ""
    /\ call = NoCall
    /\ comments = <<>>
    /\ trace = <<>>
    /\ commit_message = <<>>
    /\ run = "first"
    /\ start = repo

(***************************************************************************)
(* Control transfers                                                       *)
(***************************************************************************)
\* sys.exit(code): SystemExit is no Exception, the handler at line 136 does
\* not catch it.
Exit(code) ==
    /\ pc' = "done"
    /\ exitCode' = code
    /\ UNCHANGED <<exc, call>>

\* An exception raised inside the try block of main(), caught at line 136.
Raise(e) ==
    /\ pc' = "handler"
    /\ exc' = e
    /\ UNCHANGED <<exitCode, call>>

\* The next statement.
Goto(l) ==
    /\ pc' = l
    /\ UNCHANGED <<exitCode, exc, call>>

\* post_issue_comment(number, body) called at `site`.
Comment(site, number, body) ==
    /\ pc' = "comment"
    /\ call' = [site |-> site, number |-> number, body |-> body]
    /\ UNCHANGED <<exitCode, exc>>

\* An external operation is attempted and ends as `res` ("ok", or how it failed).
Log(op, res) == trace' = Append(trace, [op |-> op, res |-> res])

(***************************************************************************)
(* EventReader: lines 19-41 of llm_editor.py, 20-42 of llm_editor_openai.py *)
(***************************************************************************)
\* event_path = os.environ.get("GITHUB_EVENT_PATH"); exit 1 when not set.
GetEventPath ==
    /\ pc = "start"
    /\ IF env.eventPath THEN Goto("load_event") ELSE Exit(1)
    /\ UNCHANGED <<inputs, ghost, commit_message, repo, locals, comments, trace>>

\* with open(event_path) as fp: event = json.load(fp)
LoadEvent ==
    /\ pc = "load_event"
    /\ IF event.kind = "unreadable" THEN Raise("JSONDecodeError") ELSE Goto("get_issue")
    /\ UNCHANGED <<inputs, ghost, commit_message, repo, locals, comments, trace>>

\* issue = event.get("issue"); label = event.get("label", {})
GetIssue ==
    /\ pc = "get_issue"
    /\ IF event.kind = "notobject"
       THEN Raise("AttributeError") /\ UNCHANGED issueBound
       ELSE Goto("check_issue") /\ issueBound' = TRUE
    /\ UNCHANGED <<inputs, ghost, commit_message, repo, issue_number, issue_body, current_html, prompt,
                   llm_output, new_html, commit_hash, comments, trace>>

\* if not issue: sys.exit(1)
CheckIssue ==
    /\ pc = "check_issue"
    /\ IF event.issue.kind = "none" THEN Exit(1) ELSE Goto("check_label")
    /\ UNCHANGED <<inputs, ghost, commit_message, repo, locals, comments, trace>>

\* if label.get("name") != "prompt": sys.exit(0)
\* label is None when the payload holds "label": null, and None has no get.
CheckLabel ==
    /\ pc = "check_label"
    /\ IF event.label.kind = "null" THEN Raise("AttributeError")
       ELSE IF event.label.name # "prompt" THEN Exit(0)
       ELSE Goto("check_body")
    /\ UNCHANGED <<inputs, ghost, commit_message, repo, locals, comments, trace>>

\* CheckBody with the emptiness test of line 38 / 39 left out.
CheckBodyUnguarded ==
    /\ pc = "check_body"
    /\ IF event.issue.kind # "object"
       THEN Raise("AttributeError") /\ UNCHANGED <<issue_number, issue_body>>
       ELSE /\ issue_number' = event.issue.number
            /\ issue_body' = event.issue.body
            /\ Goto("read_artifact")
    /\ UNCHANGED <<inputs, ghost, commit_message, repo, issueBound, current_html, prompt, llm_output,
                   new_html, commit_hash, comments, trace>>

\* issue_number = issue.get("number"); issue_body = issue.get("body")
\* if not issue_body: sys.exit(1)
CheckBody ==
    /\ pc = "check_body"
    /\ IF event.issue.kind # "object"
       THEN Raise("AttributeError") /\ UNCHANGED <<issue_number, issue_body>>
       ELSE /\ issue_number' = event.issue.number
            /\ issue_body' = event.issue.body
            /\ IF event.issue.body = <<>> THEN Exit(1) ELSE Goto("read_artifact")
    /\ UNCHANGED <<inputs, ghost, commit_message, repo, issueBound, current_html, prompt, llm_output,
                   new_html, commit_hash, comments, trace>>

(***************************************************************************)
(* ArtifactStore.read and PromptBuilder: lines 43-62 / 44-65               *)
(***************************************************************************)
\* ReadArtifact with the file opened for writing: the open truncates it.
ReadArtifactTruncating ==
    /\ pc = "read_artifact"
    /\ \/ /\ ~env.artifact
          /\ Exit(1)
          /\ UNCHANGED <<current_html, trace, file>>
       \/ /\ env.artifact
          /\ file' = <<>>
          /\ current_html' = <<>>
          /\ Log("read", "ok")
          /\ Goto("build_prompt")
    /\ UNCHANGED <<inputs, ghost, commit_message, index, head, headId, remoteId, issueBound,
                   issue_number, issue_body, prompt, llm_output, new_html, commit_hash, comments>>

\* if not os.path.exists(index_path): sys.exit(1)
\* with open(index_path, "r", encoding="utf-8") as f: current_html = f.read()
ReadArtifact ==
    /\ pc = "read_artifact"
    /\ \/ /\ ~env.artifact
          /\ Exit(1)
          /\ UNCHANGED <<current_html, trace>>
       \/ /\ env.artifact
          /\ current_html' = file
          /\ Log("read", "ok")
          /\ Goto("build_prompt")
       \/ /\ env.artifact          \* the file cannot be opened or decoded
          /\ Log("read", "fail")
          /\ Raise("OSError")
          /\ UNCHANGED current_html
    /\ UNCHANGED <<inputs, ghost, commit_message, repo, issueBound, issue_number, issue_body, prompt,
                   llm_output, new_html, commit_hash, comments>>

\* A prompt that puts the instruction first and the page last.
GeminiPromptInstructionFirst(html, body) ==
    <<"P_apply", "n", "n", "P_user", "n">> \o body \o <<"n", "n", "P_below", "P_rule", "n">> \o html

\* The prompt of llm_editor.py, lines 52-61.
GeminiPrompt(html, body) ==
    <<"P_below", "P_rule", "n">> \o html \o <<"n", "P_rule", "n", "n", "P_apply", "n", "n", "P_user", "n">> \o body

\* The prompt of llm_editor_openai.py, lines 53-64.
OpenAIPrompt(html, body) ==
    <<"P_expert", "n", "n", "P_below", "P_rule", "n">> \o html
        \o <<"n", "P_rule", "n", "n", "P_apply", "n", "n", "P_user", "n">> \o body \o <<"n">>

BuildPrompt ==
    /\ pc = "build_prompt"
    /\ prompt' = IF variant = "gemini" THEN GeminiPrompt(current_html, issue_body)
                 ELSE OpenAIPrompt(current_html, issue_body)
    /\ Goto("get_key")
    /\ UNCHANGED <<inputs, ghost, commit_message, repo, issueBound, issue_number, issue_body, current_html,
                   llm_output, new_html, commit_hash, comments, trace>>

(***************************************************************************)
(* ModelInvoker: lines 64-85 of llm_editor.py, 67-103 of                   *)
(* llm_editor_openai.py                                                    *)
(***************************************************************************)
\* The API key is read from the environment; exit 1 when it is not set.
GetApiKey ==
    /\ pc = "get_key"
    /\ IF ~env.apiKey THEN Exit(1)
       ELSE IF variant = "gemini" THEN Goto("create_chat")
       ELSE Goto("invoke")
    /\ UNCHANGED <<inputs, ghost, commit_message, repo, locals, comments, trace>>

\* llm_editor.py 69-73: genai.Client(api_key=...), client.chats.create(...)
CreateChat ==
    /\ pc = "create_chat"
    /\ variant = "gemini"
    /\ \/ Log("chat", "ok") /\ Goto("invoke")
       \/ Log("chat", "fail") /\ Raise("GeminiError")
    /\ UNCHANGED <<inputs, ghost, commit_message, repo, locals, comments>>

\* llm_editor.py 76-85. The except clause at 78-81 reads error_msg, which is
\* a local of main() first assigned at line 91: the read raises
\* UnboundLocalError before post_issue_comment is called, and the handler at
\* line 136 catches that exception in place of the Gemini one.
SendMessage ==
    /\ pc = "invoke"
    /\ variant = "gemini"
    /\ \/ \E text \in Docs :
            /\ llm_output' = text
            /\ Log("model", "ok")
            /\ Goto("extract")
       \/ /\ Log("model", "fail")
          /\ Raise("UnboundLocalError")
          /\ UNCHANGED llm_output
    /\ UNCHANGED <<inputs, ghost, commit_message, repo, issueBound, issue_number, issue_body, current_html,
                   prompt, new_html, commit_hash, comments>>

\* llm_editor_openai.py 88-103: requests.post may raise; a status other than
\* 200 and an empty or missing choice list are reported by a comment and
\* exit 1; response.json() raises on a body that is no JSON.
PostCompletion ==
    /\ pc = "invoke"
    /\ variant = "openai"
    /\ \/ \E text \in Docs :
            /\ llm_output' = text
            /\ Log("model", "ok")
            /\ Goto("extract")
       \/ /\ Log("model", "exception")
          /\ Raise("ConnectionError")
          /\ UNCHANGED llm_output
       \/ /\ Log("model", "status")
          /\ Comment("backend", issue_number,
                     <<"OpenAI API error (", "500", "): ", "provider_message">>)
          /\ UNCHANGED llm_output
       \/ /\ Log("model", "nojson")
          /\ Raise("JSONDecodeError")
          /\ UNCHANGED llm_output
       \/ /\ Log("model", "nochoices")
          /\ Comment("backend", issue_number,
                     <<"OpenAI API returned no completion choices.">>)
          /\ UNCHANGED llm_output
    /\ UNCHANGED <<inputs, ghost, commit_message, repo, issueBound, issue_number, issue_body, current_html,
                   prompt, new_html, commit_hash, comments>>

(***************************************************************************)
(* ResponseExtractor: lines 87-95 of llm_editor.py, 105-112 of             *)
(* llm_editor_openai.py                                                    *)
(***************************************************************************)
\* soup.find("html"); html_tag.prettify(): the element alone, pretty-printed.
GeminiExtract(text) ==
    LET soup == Soup(text)
    IN  [ok   |-> soup.found,
         html |-> IF soup.found THEN PrettifyTag(soup.body) ELSE <<>>]

\* soup.prettify(): the whole output, pretty-printed; an error only when
\* nothing but white space is left.
OpenAIExtract(text) ==
    LET html == PrettifySoup(Soup(text))
    IN  [ok |-> Strip(html) # <<>>, html |-> html]

ExtractedDocument(v, text) ==
    IF v = "gemini" THEN GeminiExtract(text) ELSE OpenAIExtract(text)

ExtractionError(v) ==
    IF v = "gemini" THEN <<"No <html> tag found in the Gemini API response.">>
    ELSE <<"Failed to extract valid HTML from the OpenAI response.">>

\* Extract with the sys.exit(1) of the error branch left out: the run goes on
\* to write whatever was extracted.
ExtractFallsThrough ==
    /\ pc = "extract"
    /\ LET doc == ExtractedDocument(variant, llm_output)
       IN  /\ new_html' = doc.html
           /\ Log("extract", IF doc.ok THEN "ok" ELSE "fail")
           /\ Goto("write")
    /\ UNCHANGED <<inputs, ghost, commit_message, repo, issueBound, issue_number, issue_body, current_html,
                   prompt, llm_output, commit_hash, comments>>


Extract ==
    /\ pc = "extract"
    /\ LET doc == ExtractedDocument(variant, llm_output)
       IN  IF doc.ok
           THEN /\ new_html' = doc.html
                /\ Log("extract", "ok")
                /\ Goto("write")
           ELSE /\ new_html' = IF variant = "gemini" THEN new_html ELSE doc.html
                /\ Log("extract", "fail")
                /\ Comment("extract", issue_number, ExtractionError(variant))
    /\ UNCHANGED <<inputs, ghost, commit_message, repo, issueBound, issue_number, issue_body, current_html,
                   prompt, llm_output, commit_hash, comments>>

(***************************************************************************)
(* ArtifactStore.write and VersionControlGateway: lines 97-123 of          *)
(* llm_editor.py, 122-148 of llm_editor_openai.py                          *)
(***************************************************************************)
\* with open(index_path, "w", encoding="utf-8") as f: f.write(new_html)
\* open(..., "w") truncates the file before anything is written.
WriteArtifact ==
    /\ pc = "write"
    /\ \/ /\ file' = new_html
          /\ Log("write", "ok")
          /\ Goto("git_config")
       \/ /\ UNCHANGED file          \* the file cannot be opened for writing
          /\ Log("write", "open")
          /\ Raise("OSError")
       \/ /\ file' = <<>>            \* opened and truncated, the write fails
          /\ Log("write", "io")
          /\ Raise("OSError")
    /\ UNCHANGED <<inputs, ghost, commit_message, index, head, headId, remoteId, locals, comments>>

\* git config user.name / user.email, check=True
GitConfig ==
    /\ pc = "git_config"
    /\ \/ Log("config", "ok") /\ Goto("git_add")
       \/ Log("config", "fail") /\ Raise("CalledProcessError")
    /\ UNCHANGED <<inputs, ghost, commit_message, repo, locals, comments>>

\* git add index.html, check=True
GitAdd ==
    /\ pc = "git_add"
    /\ \/ /\ index' = file
          /\ Log("add", "ok")
          /\ Goto("git_commit")
       \/ /\ UNCHANGED index
          /\ Log("add", "fail")
          /\ Raise("CalledProcessError")
    /\ UNCHANGED <<inputs, ghost, commit_message, file, head, headId, remoteId, locals, comments>>

\* A commit message that leaves the issue number out.
CommitMessageNoNumber(number) == <<"LLM updated index.html">>

\* commit_message, line 108 / 133: a fixed text and the issue number.
CommitMessage(number) == <<"LLM updated index.html based on issue #", ToString(number)>>

\* The identifier of the commit made on top of `id`.
NewCommit(id) == IF id = "c0" THEN "c1" ELSE "c2"

\* What the except clause at lines 111-115 / 136-140 does with a
\* CalledProcessError of git commit, whatever made git commit fail.
CommitFailed(cause) ==
    /\ Log("commit", cause)
    /\ Comment("noop", issue_number, <<"No changes were necessary for index.html.">>)
    /\ UNCHANGED <<head, headId>>

\* GitCommit with --allow-empty: git commit succeeds with nothing staged.
GitCommitAllowEmpty ==
    /\ pc = "git_commit"
    /\ commit_message' = CommitMessage(issue_number)
    /\ \/ /\ head' = index
          /\ headId' = NewCommit(headId)
          /\ Log("commit", "ok")
          /\ Goto("git_push")
       \/ CommitFailed("other")
    /\ UNCHANGED <<inputs, ghost, file, index, remoteId, locals, comments>>

\* git commit -m "LLM updated index.html based on issue #<number>", check=True
\* git commit exits non-zero when nothing is staged against HEAD, and also
\* for other reasons (a hook that rejects, a locked index).
GitCommit ==
    /\ pc = "git_commit"
    /\ commit_message' = CommitMessage(issue_number)
    /\ \/ /\ index # head
          /\ head' = index
          /\ headId' = NewCommit(headId)
          /\ Log("commit", "ok")
          /\ Goto("git_push")
       \/ /\ index = head
          /\ CommitFailed("nothing")
       \/ CommitFailed("other")
    /\ UNCHANGED <<inputs, ghost, file, index, remoteId, locals, comments>>

\* GitPush without check=True: a failed push raises nothing.
GitPushUnchecked ==
    /\ pc = "git_push"
    /\ \/ /\ remoteId' = headId
          /\ Log("push", "ok")
       \/ /\ UNCHANGED remoteId
          /\ Log("push", "fail")
    /\ Goto("rev_parse")
    /\ UNCHANGED <<inputs, ghost, commit_message, file, index, head, headId, locals, comments>>

\* git push origin main, check=True
GitPush ==
    /\ pc = "git_push"
    /\ \/ /\ remoteId' = headId
          /\ Log("push", "ok")
          /\ Goto("rev_parse")
       \/ /\ UNCHANGED remoteId
          /\ Log("push", "fail")
          /\ Raise("CalledProcessError")
    /\ UNCHANGED <<inputs, ghost, commit_message, file, index, head, headId, locals, comments>>

\* The success comment without the commit identifier.
SuccessBodyNoHash(v, hash) ==
    <<"**index.html updated!**">> \o (IF v = "openai" THEN <<"diff">> ELSE <<>>)

\* The success comment: lines 130-133 / 155-159 (the OpenAI variant appends
\* the unified diff of the old and the new content).
SuccessBody(v, hash) ==
    <<"**index.html updated!**", "Commit: ", hash>>
        \o (IF v = "openai" THEN <<"diff">> ELSE <<>>)

\* git rev-parse HEAD, check=True; then the success comment is posted.
RevParse ==
    /\ pc = "rev_parse"
    /\ \/ /\ commit_hash' = headId
          /\ Log("revparse", "ok")
          /\ Comment("success", issue_number, SuccessBody(variant, headId))
       \/ /\ UNCHANGED commit_hash
          /\ Log("revparse", "fail")
          /\ Raise("CalledProcessError")
    /\ UNCHANGED <<inputs, ghost, commit_message, repo, issueBound, issue_number, issue_body, current_html,
                   prompt, llm_output, new_html, comments>>

(***************************************************************************)
(* Notifier and the handler of main()                                      *)
(***************************************************************************)
\* AfterComment with the sys.exit(0) of line 115 / 140 left out: after the
\* no-op comment the run goes on to push.
AfterCommentFallsThrough(site) ==
    IF site = "noop" THEN Goto("git_push")
    ELSE IF site = "success" THEN Exit(0) ELSE Exit(1)

\* What main() does when post_issue_comment returns: sys.exit(1) after an
\* error comment (lines 81, 94 / 93, 101, 112), sys.exit(0) after the no-op
\* comment (115 / 140), and the end of main(), exit code 0, after the success
\* comment (135 / 161); sys.exit(1) at the end of the handler (144 / 170).
AfterComment(site) ==
    IF site \in {"noop", "success"} THEN Exit(0) ELSE Exit(1)

\* post_issue_comment without the try/except around requests.post: the
\* exception reaches the caller, that is the handler at line 136, or the
\* inner except of the handler when the handler made the call.
PostIssueCommentRaises ==
    /\ pc = "comment"
    /\ \E outcome \in CommentOutcomes :
        /\ comments' = Append(comments, [site |-> call.site, number |-> call.number,
                                         body |-> call.body, outcome |-> outcome])
        /\ trace' = trace \o <<[op |-> "comment", res |-> outcome]>>
                      \o (IF outcome = "noconfig" THEN <<>>
                          ELSE <<[op |-> "http", res |-> outcome]>>)
        /\ IF outcome # "exception" THEN AfterComment(call.site)
           ELSE IF call.site = "handler" THEN Exit(1)
           ELSE Raise("ConnectionError")
    /\ UNCHANGED <<inputs, ghost, commit_message, repo, locals>>

\* post_issue_comment, lines 146-171 / 172-196: returns without a request
\* when the token or the repository is not set; a bad status and an
\* exception of requests.post are logged, nothing is raised.
PostIssueComment ==
    /\ pc = "comment"
    /\ \E outcome \in CommentOutcomes :
        /\ comments' = Append(comments, [site |-> call.site, number |-> call.number,
                                         body |-> call.body, outcome |-> outcome])
        /\ trace' = trace \o <<[op |-> "comment", res |-> outcome]>>
                      \o (IF outcome = "noconfig" THEN <<>>
                          ELSE <<[op |-> "http", res |-> outcome]>>)
    /\ AfterComment(call.site)
    /\ UNCHANGED <<inputs, ghost, commit_message, repo, locals>>

\* The body of the comment the handler posts.
HandlerBody(e) == <<"Error", " in LLM Editor script", ": ", e>>

\* The handler without its comment: it logs and exits.
HandlerSilent ==
    /\ pc = "handler"
    /\ Exit(1)
    /\ UNCHANGED <<inputs, ghost, commit_message, repo, locals, comments, trace>>

\* The handler with one retry: on the first exception it starts main() again.
HandlerRetriesOnce ==
    /\ pc = "handler"
    /\ IF \A i \in DOMAIN trace : trace[i].op # "retry"
       THEN Log("retry", "ok") /\ Goto("start")
       ELSE /\ UNCHANGED trace
            /\ IF issueBound /\ event.issue.kind = "object" /\ event.issue.number # 0
               THEN Comment("handler", event.issue.number, HandlerBody(exc))
               ELSE Exit(1)
    /\ UNCHANGED <<inputs, ghost, commit_message, repo, locals, comments>>

\* except Exception as e, lines 136-144 / 162-170: a comment when issue is
\* assigned and has a truthy number; issue.get raises when issue is no
\* object, which the inner except swallows; then sys.exit(1).
Handler ==
    /\ pc = "handler"
    /\ IF issueBound /\ event.issue.kind = "object" /\ event.issue.number # 0
       THEN Comment("handler", event.issue.number, HandlerBody(exc))
       ELSE Exit(1)
    /\ UNCHANGED <<inputs, ghost, commit_message, repo, locals, comments, trace>>

Next ==
    \/ GetEventPath
    \/ LoadEvent
    \/ GetIssue
    \/ CheckIssue
    \/ CheckLabel
    \/ CheckBody
    \/ ReadArtifact
    \/ BuildPrompt
    \/ GetApiKey
    \/ CreateChat
    \/ SendMessage
    \/ PostCompletion
    \/ Extract
    \/ WriteArtifact
    \/ GitConfig
    \/ GitAdd
    \/ GitCommit
    \/ GitPush
    \/ RevParse
    \/ PostIssueComment
    \/ Handler

Spec == Init /\ [][Next]_vars

(***************************************************************************)
(* Two runs, one after the other in the same working copy: after a run    *)
(* that made a commit, the script is started again (lines 173-174 /        *)
(* 198-199) on the same event, on what the first run left in the working   *)
(* copy and the repository.                                                *)
(***************************************************************************)
Restart ==
    /\ pc = "done"
    /\ run = "first"
    /\ headId # "c0"
    /\ run' = "second"
    /\ start' = repo
    /\ pc' = "start"
    /\ exitCode' = Running
    /\ issueBound' = FALSE
    /\ issue_number' = 0
    /\ issue_body' = <<>>
    /\ current_html' = <<>>
    /\ prompt' = <<>>
    /\ llm_output' = <<>>
    /\ new_html' = <<>>
    /\ commit_hash' = ""
    /\ commit_message' = <<>>
    /\ exc' = ""
    /\ call' = NoCall
    /\ comments' = <<>>
    /\ trace' = <<>>
    /\ UNCHANGED <<inputs, repo>>

\* The runs of an actionable event in a complete environment.
InitTwoRuns ==
    /\ Init
    /\ env = [eventPath |-> TRUE, apiKey |-> TRUE, artifact |-> TRUE]
    /\ event.kind = "object"
    /\ event.issue.kind = "object"
    /\ event.issue.body # <<>>
    /\ event.label = [kind |-> "object", name |-> "prompt"]

SpecTwoRuns == InitTwoRuns /\ [][Next \/ Restart]_vars

(***************************************************************************)
(* A run under the assumption that every external call returns or raises:  *)
(* the statement the run is at is eventually executed. No branch of main() *)
(* tests the content index.html has at the start, so one content stands    *)
(* for all.                                                                *)
(***************************************************************************)
InitFair ==
    /\ Init
    /\ env.artifact => file = <<"H", "h">>

FairSpec == InitFair /\ [][Next]_vars /\ WF_vars(Next)

(***************************************************************************)
(* Vocabulary of the properties                                            *)
(***************************************************************************)
Done == pc = "done"

\* The places of the attempts of `op` in the trace.
Ops(op) == {i \in DOMAIN trace : trace[i].op = op}
Attempted(op) == Ops(op) # {}
Succeeded(op) == \E i \in Ops(op) : trace[i].res = "ok"
Failed(op) == \E i \in Ops(op) : trace[i].res # "ok"
\* Every attempt of `op` comes after a successful `pred`.
Follows(op, pred) ==
    \A i \in Ops(op) : \E j \in 1..(i - 1) : trace[j] = [op |-> pred, res |-> "ok"]

\* The event file was read and holds an object.
EventLoaded == env.eventPath /\ event.kind = "object"
\* label.name of the payload; Null when there is no label or no name.
LabelName == event.label.name
\* The label guard of line 32 / 33 lets the event through.
LabelIsPrompt == event.label.kind = "object" /\ event.label.name = "prompt"
\* The payload holds an issue object with an empty body.
EmptyBodyEvent == EventLoaded /\ event.issue.kind = "object" /\ event.issue.body = <<>>
\* An actionable event: an issue with a number and a body, labelled "prompt".
ValidEvent ==
    /\ EventLoaded
    /\ event.issue.kind = "object"
    /\ event.issue.number # 0
    /\ event.issue.body # <<>>
    /\ LabelIsPrompt

\* The model backend call was made and failed.
BackendFailed == Failed("model")

\* The comment body begins with "Error:".
BeginsWithErrorColon(body) == Len(body) >= 2 /\ body[1] = "Error" /\ body[2] = ": "
\* The comment body reports an error the way the scripts word it.
ReportsError(body) ==
    /\ Len(body) >= 1
    /\ \/ body[1] \in {"OpenAI API error (", "OpenAI API returned no completion choices."}
       \/ IsPrefix(<<"Error", " in LLM Editor script", ": ">>, body)
NoChangesBody == <<"No changes were necessary for index.html.">>

\* No commit was made and nothing was pushed.
NothingCommitted == headId = "c0" /\ remoteId = "c0"

(***************************************************************************)
(* C1. Every run that ends in success, in the no-op outcome or in a        *)
(* declared failure (invalid event, missing artifact, backend, extraction  *)
(* or git failure) has made exactly one issue-comment call; only a label   *)
(* mismatch ends with none. Stated for runs whose issue number is known.   *)
(* The scripts break it: an empty body and a missing artifact exit 1       *)
(* without a comment.                                                      *)
(***************************************************************************)
C1_ExactlyOneCommentPerRun ==
    (/\ Done
     /\ EventLoaded
     /\ env.apiKey
     /\ event.issue.kind = "object"
     /\ event.issue.number # 0
     /\ LabelIsPrompt)
        => Len(comments) = 1

(***************************************************************************)
(* C2. An event whose label name is not "prompt" (label missing, null or   *)
(* another name) ends with exit code 0 and without artifact read, model    *)
(* call, git operation or comment call. Stated here for the payloads that  *)
(* hold an issue object. The scripts break it: with "label": null,         *)
(* label.get raises AttributeError, and the run ends in the handler with   *)
(* exit code 1, after an error comment when the issue has a number.        *)
(***************************************************************************)
C2_LabelMismatchIsSilent ==
    (Done /\ EventLoaded /\ event.issue.kind = "object" /\ ~LabelIsPrompt)
        => (exitCode = 0 /\ trace = <<>> /\ comments = <<>>)

(***************************************************************************)
(* C3 as stated: every event with an empty issue body, whatever its label, *)
(* ends with exit code 1 and without a model call.                         *)
(***************************************************************************)
C3_Original ==
    (Done /\ EmptyBodyEvent) => (exitCode = 1 /\ ~Attempted("model"))

(***************************************************************************)
(* C3 as amended: every event with an empty issue body ends without a      *)
(* model call; its exit code is 1, except that the label guard, which      *)
(* comes first, ends the run with exit code 0 when the label is missing or *)
(* names another label than "prompt".                                      *)
(***************************************************************************)
C3_EmptyBodyRejected ==
    (Done /\ EmptyBodyEvent)
        => /\ ~Attempted("model")
           /\ exitCode = (IF event.label.kind # "null" /\ LabelName # "prompt" THEN 0 ELSE 1)

C3_Witness ==
    Done /\ EmptyBodyEvent /\ LabelIsPrompt /\ exitCode = 1 /\ ~Attempted("read")

(***************************************************************************)
(* C4 as stated: after a failed backend call on a valid event nothing is   *)
(* committed or pushed, the exit code is 1 and one comment is posted whose *)
(* body begins with "Error:".                                              *)
(***************************************************************************)
C4_Original ==
    (Done /\ ValidEvent /\ BackendFailed)
        => /\ ~Attempted("commit") /\ ~Attempted("push") /\ NothingCommitted
           /\ exitCode = 1
           /\ Len(comments) = 1
           /\ BeginsWithErrorColon(comments[1].body)

(***************************************************************************)
(* C4 as amended: after a failed backend call on a valid event nothing is  *)
(* committed or pushed, the exit code is 1 and exactly one comment call is *)
(* made; its body reports the error in the scripts' own wording ("OpenAI   *)
(* API error (...", "OpenAI API returned no completion choices.", or       *)
(* "Error in LLM Editor script: ..."), and never begins with "Error:".     *)
(***************************************************************************)
C4_BackendFailureReported ==
    (Done /\ ValidEvent /\ BackendFailed)
        => /\ ~Attempted("commit") /\ ~Attempted("push") /\ NothingCommitted
           /\ exitCode = 1
           /\ Len(comments) = 1
           /\ ReportsError(comments[1].body)
           /\ ~BeginsWithErrorColon(comments[1].body)

C4_Witness ==
    /\ Done /\ ValidEvent /\ BackendFailed
    /\ variant = "gemini"
    /\ Len(comments) = 1 /\ comments[1].site = "handler"

(***************************************************************************)
(* C5. When the model returns the artifact content unchanged (and no step  *)
(* of the run fails for a reason of its own), no commit is made,           *)
(* nothing is pushed, the "no changes were necessary" comment is posted    *)
(* and the exit code is 0, also for content that is not in prettified      *)
(* form. The scripts break it: they compare nothing themselves, they write *)
(* the prettified output and leave the comparison to git, so unprettified  *)
(* content comes back changed and is committed.                            *)
(***************************************************************************)
C5_IdenticalOutputIsNoop ==
    (/\ Done
     /\ Succeeded("model") /\ llm_output = current_html
     /\ Succeeded("extract") /\ Succeeded("write") /\ Succeeded("add")
     /\ \A i \in Ops("commit") : trace[i].res # "other"
     /\ ~Failed("push") /\ ~Failed("revparse"))
        => /\ NothingCommitted
           /\ Len(comments) = 1 /\ comments[1].body = NoChangesBody
           /\ exitCode = 0

\* The outcome of a successful run: the artifact holds the extracted
\* document, one new commit is pushed, one success comment carries the
\* identifier of HEAD, exit code 0.
SuccessOutcome ==
    /\ file = ExtractedDocument(variant, llm_output).html
    /\ head = file
    /\ headId = NewCommit("c0") /\ remoteId = headId
    /\ Len(comments) = 1
    /\ comments[1].site = "success"
    /\ \E i \in DOMAIN comments[1].body : comments[1].body[i] = headId
    /\ exitCode = 0

(***************************************************************************)
(* C6 as stated: when the event is valid and the model call, extraction,   *)
(* artifact write, stage, commit and push all succeed, the run ends in the *)
(* success outcome.                                                        *)
(***************************************************************************)
C6_Original ==
    (/\ Done /\ ValidEvent
     /\ Succeeded("model") /\ Succeeded("extract") /\ Succeeded("write")
     /\ Succeeded("add") /\ Succeeded("commit") /\ Succeeded("push"))
        => SuccessOutcome

(***************************************************************************)
(* C6 as amended: when the event is valid and the model call, extraction,  *)
(* artifact write, stage, commit, push and the read-back of HEAD           *)
(* (git rev-parse HEAD) all succeed, the run ends in the success outcome.  *)
(***************************************************************************)
C6_SuccessPath ==
    (/\ Done /\ ValidEvent
     /\ Succeeded("model") /\ Succeeded("extract") /\ Succeeded("write")
     /\ Succeeded("add") /\ Succeeded("commit") /\ Succeeded("push")
     /\ Succeeded("revparse"))
        => SuccessOutcome

C6_Witness ==
    /\ Done /\ ValidEvent /\ Succeeded("revparse")
    /\ file # current_html
    /\ exitCode = 0

(***************************************************************************)
(* C7. A failed git commit becomes the no-op outcome only when nothing was *)
(* staged against HEAD; a commit that fails for another reason, and a      *)
(* failed git config, git add or git push, end the run with exit code 1.   *)
(* The scripts break it: the except clause takes every CalledProcessError  *)
(* of git commit for "nothing to commit".                                  *)
(***************************************************************************)
C7_OnlyEmptyDiffIsNoop ==
    Done =>
        /\ (\E i \in Ops("commit") : trace[i].res = "other" /\ index # head)
                => (exitCode = 1 /\ \A k \in DOMAIN comments : comments[k].body # NoChangesBody)
        /\ (Failed("config") \/ Failed("add") \/ Failed("push")) => exitCode = 1

\* The exit code the stages before the comment call have decided: 0 after
\* the read-back of HEAD and after a failed commit, 1 otherwise.
StageExitCode == IF Succeeded("revparse") \/ Failed("commit") THEN 0 ELSE 1

(***************************************************************************)
(* C8. A failed issue-comment call (token or repository not set, a status  *)
(* other than 200/201, an exception of the request) never changes the exit *)
(* code: a run that called post_issue_comment exits with the code the      *)
(* stage before the call decided, whatever the outcome of the call.        *)
(***************************************************************************)
C8_CommentFailureKeepsExitCode ==
    (Done /\ comments # <<>>) => exitCode = StageExitCode

C8_Witness ==
    /\ Done
    /\ Len(comments) = 1
    /\ comments[1].site = "success"
    /\ comments[1].outcome = "exception"
    /\ exitCode = 0

(***************************************************************************)
(* C9. The model call comes after the artifact read, the artifact write    *)
(* after a successful extraction, and git add, git commit and git push, in *)
(* that order, after the write, each only after its predecessor succeeded. *)
(***************************************************************************)
C9_StageOrder ==
    /\ Follows("model", "read")
    /\ Follows("extract", "model")
    /\ Follows("write", "extract")
    /\ Follows("add", "write")
    /\ Follows("commit", "add")
    /\ Follows("push", "commit")

C9_Witness == Done /\ Succeeded("push") /\ Len(trace) >= 9

(***************************************************************************)
(* C10. In one run the model call, the artifact write, git add, git        *)
(* commit, git push and the issue-comment request are each attempted at    *)
(* most once, on every path, the failure paths through the handler         *)
(* included.                                                               *)
(***************************************************************************)
C10_AtMostOnce ==
    \A op \in {"model", "write", "add", "commit", "push", "comment", "http"} :
        Cardinality(Ops(op)) <= 1

C10_Witness ==
    /\ Done
    /\ Failed("push")
    /\ Len(comments) = 1 /\ comments[1].site = "handler"
    /\ Cardinality(Ops("http")) = 1

(***************************************************************************)
(* C11. When the model output holds an <html> element, the content written *)
(* to the artifact is exactly that element, prettified, and the text       *)
(* around it is dropped. The OpenAI script breaks it: it prettifies the    *)
(* whole parsed output (soup.prettify(), line 107) and never looks for the *)
(* element, so text before or after the element is written to the          *)
(* artifact as well.                                                       *)
(***************************************************************************)
C11_WrittenContentIsTheElement ==
    (Succeeded("write") /\ Soup(llm_output).found)
        => file = PrettifyTag(Soup(llm_output).body)

(***************************************************************************)
(* C12. An invalid event whose issue number is known (here: an empty body  *)
(* under the "prompt" label) is answered by a comment on that issue that   *)
(* gives the reason. The scripts break it: line 38-40 / 39-41 logs and     *)
(* exits 1 without a comment.                                              *)
(***************************************************************************)
C12_InvalidEventIsAnswered ==
    (/\ Done
     /\ EmptyBodyEvent
     /\ event.issue.number # 0
     /\ LabelIsPrompt)
        => (comments # <<>> /\ comments[1].number = event.issue.number)

(***************************************************************************)
(* C13. An issue body of white space alone is rejected: no model call, no  *)
(* artifact write, no commit. The scripts break it: `not issue_body` is    *)
(* false for such a body, nothing trims it, and the run goes on.           *)
(***************************************************************************)
C13_BlankBodyRejected ==
    (/\ EventLoaded
     /\ event.issue.kind = "object"
     /\ event.issue.body # <<>>
     /\ IsBlank(event.issue.body))
        => (~Attempted("model") /\ ~Attempted("write") /\ ~Attempted("commit"))

\* The HEAD commit when the run started: its content and its identifier.
StartHead == start[3]
StartHeadId == start[4]

\* The second run extracted, as its new content, what the first committed.
SecondRunRepeatsCommit ==
    /\ run = "second"
    /\ StartHeadId # "c0"
    /\ Succeeded("extract")
    /\ new_html = StartHead

(***************************************************************************)
(* C14. Idempotence of the commit stage across two runs in one working     *)
(* copy: when the new content of the second run equals the content the     *)
(* first run committed, the second run makes no commit and no push, and    *)
(* when it reaches git commit it ends in the no-op outcome: the "no        *)
(* changes" comment and exit code 0.                                       *)
(***************************************************************************)
C14_SecondRunIsNoop ==
    SecondRunRepeatsCommit
        => /\ ~Succeeded("commit") /\ ~Attempted("push")
           /\ headId = StartHeadId /\ head = StartHead
           /\ remoteId = start[5]
           /\ (Done /\ Attempted("commit"))
                => /\ exitCode = 0
                   /\ Len(comments) = 1
                   /\ comments[1].body = NoChangesBody

C14_Witness ==
    /\ SecondRunRepeatsCommit
    /\ Done
    /\ \E i \in Ops("commit") : trace[i].res = "nothing"
    /\ exitCode = 0

\* text holds first as a contiguous part, and after it second as one.
HoldsInOrder(text, first, second) ==
    \E i \in 0..(Len(text) - Len(first)) :
        /\ SubSeq(text, i + 1, i + Len(first)) = first
        /\ \E j \in (i + Len(first))..(Len(text) - Len(second)) :
               SubSeq(text, j + 1, j + Len(second)) = second

PromptBuilt == prompt # <<>>

(***************************************************************************)
(* C15. In both variants the prompt is a function of the artifact content  *)
(* and the issue body alone, and it holds the whole artifact content and   *)
(* the whole issue body, each as a contiguous part, the artifact content   *)
(* before the instruction.                                                 *)
(***************************************************************************)
C15_PromptHoldsBoth ==
    PromptBuilt
        => /\ prompt = IF variant = "gemini" THEN GeminiPrompt(current_html, issue_body)
                       ELSE OpenAIPrompt(current_html, issue_body)
           /\ HoldsInOrder(prompt, current_html, issue_body)

C15_Witness ==
    /\ PromptBuilt
    /\ pc = "get_key"
    /\ variant = "gemini"
    /\ Len(current_html) = MaxText
    /\ issue_body = <<"x">>
    /\ ~IsSubstring(issue_body, current_html)

\* message carries the beginning of the instruction text, however short.
CarriesInstruction(message, body) ==
    \E k \in 1..Len(body) : IsSubstring(SubSeq(body, 1, k), message)

\* message carries the issue number.
CarriesNumber(message, number) == IsSubstring(<<ToString(number)>>, message)

(***************************************************************************)
(* C16, as stated: the message of every commit holds the issue number      *)
(* together with the beginning of the instruction text.                    *)
(***************************************************************************)
C16_Original ==
    Succeeded("commit")
        => /\ CarriesNumber(commit_message, event.issue.number)
           /\ CarriesInstruction(commit_message, event.issue.body)

(***************************************************************************)
(* C16. The message of every commit is the fixed text "LLM updated         *)
(* index.html based on issue #" followed by the number of the triggering   *)
(* issue, and it holds no part of the instruction text.                    *)
(***************************************************************************)
C16_MessageIsNumberOnly ==
    Succeeded("commit")
        => /\ Len(commit_message) = 2
           /\ commit_message[1] = "LLM updated index.html based on issue #"
           /\ CarriesNumber(commit_message, event.issue.number)
           /\ ~CarriesInstruction(commit_message, event.issue.body)

C16_Witness ==
    /\ Succeeded("commit")
    /\ event.issue.number # 0
    /\ event.issue.body = <<"x">>
    /\ CarriesNumber(commit_message, event.issue.number)

\* The exceptions a failing backend call raises.
BackendExceptions == {"GeminiError", "ConnectionError", "JSONDecodeError"}

\* The comment body describes a failure of the backend: the OpenAI status
\* report, the report of a missing choice list, or the handler's report of
\* an exception the backend call raised.
DescribesBackendFailure(body) ==
    \/ /\ Len(body) >= 1
       /\ body[1] \in {"OpenAI API error (", "OpenAI API returned no completion choices."}
    \/ \E e \in BackendExceptions : body = HandlerBody(e)

(***************************************************************************)
(* C17. In both variants, when the model backend call fails, the body of   *)
(* the comment posted on the issue describes that backend failure and not  *)
(* another error raised while handling it; in the Gemini variant an        *)
(* exception of chat.send_message gives a comment that carries the Gemini  *)
(* error. The Gemini script breaks it: its except clause reads a variable  *)
(* that is not yet assigned, and the comment reports that error instead.   *)
(***************************************************************************)
C17_CommentDescribesBackendFailure ==
    (Done /\ ValidEvent /\ BackendFailed /\ comments # <<>>)
        => DescribesBackendFailure(comments[1].body)

(***************************************************************************)
(* C18. A run that ends before the artifact-write step (label mismatch,    *)
(* invalid event, missing artifact, missing API key, backend failure,      *)
(* extraction failure) leaves the artifact file, the staged changes, the   *)
(* commits and the remote branch as they were when the run started.        *)
(***************************************************************************)
C18_EarlyExitChangesNothing ==
    (Done /\ ~Attempted("write")) => repo = start

C18_Witness ==
    /\ Done
    /\ Failed("extract")
    /\ ~Attempted("write")
    /\ exitCode = 1
    /\ file # <<>>

\* A success comment call was made.
SuccessCommented == \E i \in DOMAIN comments : comments[i].site = "success"

\* The commit was made, and the push or the reading back of HEAD failed.
FailedAfterCommit == Succeeded("commit") /\ (Failed("push") \/ Failed("revparse"))

\* The success comment comes only after stage, commit and push succeeded.
SuccessCommentIsLast ==
    SuccessCommented
        => /\ Succeeded("add") /\ Succeeded("commit") /\ Succeeded("push")
           /\ ~Failed("push") /\ ~Failed("revparse")
           /\ Follows("comment", "push")
           /\ Follows("push", "commit")
           /\ Follows("commit", "add")

(***************************************************************************)
(* C19, as stated: the success comment is made only after stage, commit    *)
(* and push succeeded; a run in which the commit succeeds and the push or  *)
(* the reading back of HEAD fails makes an error comment, no success or    *)
(* "no changes" comment, and exits with code 1.                            *)
(***************************************************************************)
C19_Original ==
    /\ SuccessCommentIsLast
    /\ (Done /\ FailedAfterCommit)
          => /\ exitCode = 1
             /\ Len(comments) = 1
             /\ comments[1].site = "handler"

(***************************************************************************)
(* C19. The success comment is made only after stage, commit and push      *)
(* succeeded. A run in which the commit succeeds and the push or the       *)
(* reading back of HEAD fails exits with code 1 and makes no success or    *)
(* "no changes" comment; it makes one error comment, the handler's report  *)
(* of the failed git command, when the issue has a number, and no comment  *)
(* at all when it has none.                                                *)
(***************************************************************************)
C19_SuccessCommentOnlyAfterPush ==
    /\ SuccessCommentIsLast
    /\ (Done /\ FailedAfterCommit)
          => /\ exitCode = 1
             /\ \A i \in DOMAIN comments : comments[i].site = "handler"
             /\ IF event.issue.number # 0
                THEN /\ Len(comments) = 1
                     /\ comments[1].body = HandlerBody("CalledProcessError")
                     /\ comments[1].number = event.issue.number
                ELSE comments = <<>>

C19_Witness ==
    /\ Done
    /\ Succeeded("commit")
    /\ Failed("push")
    /\ event.issue.number = 0
    /\ comments = <<>>
    /\ exitCode = 1

\* The stages of a run in the order of the code; the handler, the comment
\* request and the end of the process come after every stage.
Stages ==
    <<"start", "load_event", "get_issue", "check_issue", "check_label", "check_body",
      "read_artifact", "build_prompt", "get_key", "create_chat", "invoke", "extract",
      "write", "git_config", "git_add", "git_commit", "git_push", "rev_parse",
      "handler", "comment", "done">>
StageRank(l) == IndexOf(Stages, l)

(***************************************************************************)
(* C20. When every external call returns or raises, every run of either    *)
(* variant eventually ends with exit code 0 or 1, and no step of it goes   *)
(* back to an earlier stage, also when an exception is raised inside the   *)
(* handler.                                                                *)
(***************************************************************************)
C20_TerminatesMovingForward ==
    /\ <>(Done /\ exitCode \in {0, 1})
    /\ [][StageRank(pc') > StageRank(pc)]_vars

C20_Witness ==
    /\ Done
    /\ event.issue.kind = "scalar"
    /\ exc = "AttributeError"
    /\ exitCode = 1
    /\ comments = <<>>

====
